---- MODULE Spec2Model ----
(***************************************************************************)
(* Model of script.py: the harvesting pipeline that fetches the training   *)
(* material of every topic, detects new and updated trainings, converts    *)
(* them to the EOSC training resource profile, validates them against the  *)
(* EOSC API and sorts the results into validated_eosc_jsons and            *)
(* upload_failures.                                                        *)
(*                                                                         *)
(* Python values are tagged records: None, Str(pieces), List(items),       *)
(* Bool(b) and dicts.  A Python str is a sequence of pieces; the piece     *)
(* " " is a single space, every other piece is a run of non-space          *)
(* characters, so that str.split(" ") and concatenation can be computed.   *)
(* A JSON file holds the parsed value that json.load returns for it.       *)
(***************************************************************************)
EXTENDS Integers, Sequences, FiniteSets, TLC

VARIABLES
    pc,                          \* position of the __main__ block
    run,                         \* number of runs started so far
    topics,                      \* ./topics
    old_topics,                  \* ./old_topics
    upload_failures,             \* ./upload_failures
    old_upload_failures,         \* ./old_upload_failures
    validated_eosc_jsons,        \* ./validated_eosc_jsons
    upload_failures_txt,         \* ./upload_failures.txt, a sequence of lines
    todo,                        \* topics that fetch_trainings still has to fetch
    failed_fetch,                \* topics whose materials call failed in this run
    training_jsons,              \* result of compare_training_material
    new_training_eosc_jsons,     \* mapped new trainings
    update_training_eosc_jsons,  \* mapped updated trainings
    validated_new_trainings,     \* validation outcomes of the new trainings
    validated_updated_trainings, \* validation outcomes of the updated trainings
    routed,                      \* number of outcomes the current loop of
                                 \* process_validated_trainings has handled
    requests,                    \* number of POSTs sent to the validation API in this run
    training_in,                 \* argument of a single call of training_to_eosc_json
    training_out                 \* its result

vars == <<pc, run, topics, old_topics, upload_failures, old_upload_failures,
          validated_eosc_jsons, upload_failures_txt, todo, failed_fetch,
          training_jsons, new_training_eosc_jsons, update_training_eosc_jsons,
          validated_new_trainings, validated_updated_trainings, routed,
          requests, training_in, training_out>>

-----------------------------------------------------------------------------
(* Python values *)

None == [ty |-> "NoneType"]
Str(s) == [ty |-> "str", s |-> s]
S(piece) == Str(<<piece>>)
List(l) == [ty |-> "list", items |-> l]
Bool(b) == [ty |-> "bool", b |-> b]
Dict(items) == [ty |-> "dict", items |-> items]

\* Python truth value testing: None, False, "", [] and {} are falsy
Falsy(v) ==
    \/ v.ty = "NoneType"
    \/ v.ty = "bool" /\ ~v.b
    \/ v.ty = "str" /\ v.s = <<>>
    \/ v.ty = "list" /\ v.items = <<>>
    \/ v.ty = "dict" /\ v.items = <<>>

Range(f) == {f[i] : i \in DOMAIN f}

Last(s) == s[Len(s)]

\* str.split(" "): the pieces between single spaces, empty strings included
RECURSIVE split(_, _)
split(s, cur) ==
    IF s = <<>> THEN <<Str(cur)>>
    ELSE IF Head(s) = " " THEN <<Str(cur)>> \o split(Tail(s), <<>>)
    ELSE split(Tail(s), Append(cur, Head(s)))

\* list(dict.fromkeys(l)): duplicates removed, first occurrence kept
RECURSIVE fromkeys(_, _)
fromkeys(l, seen) ==
    IF l = <<>> THEN <<>>
    ELSE IF Head(l) \in seen THEN fromkeys(Tail(l), seen)
    ELSE <<Head(l)>> \o fromkeys(Tail(l), seen \cup {Head(l)})

RECURSIVE SelectSeq2(_, _)
\* the elements c of l with c.id in ids, in order (lines 143-145)
SelectSeq2(l, ids) ==
    IF l = <<>> THEN <<>>
    ELSE IF Head(l).id \in ids THEN <<Head(l)>> \o SelectSeq2(Tail(l), ids)
    ELSE SelectSeq2(Tail(l), ids)

-----------------------------------------------------------------------------
(* translate_level, lines 104-118 *)

level_keys == {S("Introductory"), S("Any"), S("Intermediate"), S("Advanced")}

level_mapping(level) ==
    CASE level = S("Introductory") -> S("tr_expertise_level-beginner")
      [] level = S("Any") -> S("tr_expertise_level-all")
      [] level = S("Intermediate") -> S("tr_expertise_level-intermediate")
      [] level = S("Advanced") -> S("tr_expertise_level-advanced")

\* translate_level whose default of line 116 is that of line 117
translate_level_default_all(level) ==
    IF level \in level_keys THEN level_mapping(level) ELSE S("tr_expertise_level-all")

\* lines 104-118
translate_level(level) ==
    LET got == IF level \in level_keys THEN level_mapping(level)
               ELSE S("tr_expertise_level-advanced")
    IN IF Falsy(got) THEN S("tr_expertise_level-all") ELSE got

-----------------------------------------------------------------------------
(* training_to_eosc_json, lines 121-286 *)

\* dict access on a Dict whose items are <<key, value>> pairs
dict_has(d, k) == \E i \in DOMAIN d.items : d.items[i][1] = k
dict_get(d, k) ==
    IF dict_has(d, k)
    THEN d.items[CHOOSE i \in DOMAIN d.items : d.items[i][1] = k][2]
    ELSE None

\* an error message: the text with the interpolated training_json kept apart
Message(text, training_json) == [ty |-> "str", s |-> text, path |-> training_json]

base_url == S("https://training.galaxyproject.org/training-material")
provider_id == S("uni-freiburg")
license == S("https://spdx.org/licenses/CC-BY-4.0")
access_rights == S("tr_access_right-open_access")
version_date == S("2024-01-01")
targetGroups == List(<<S("target_user-researchers"), S("target_user-students")>>)
languages == List(<<S("en")>>)
geographicalAvailabilities == List(<<S("WW")>>)
scientificDomains ==
    List(<<Dict(<< <<"scientificDomain", S("scientific_domain-generic")>>,
                   <<"scientificSubdomain", S("scientific_subdomain-generic-generic")>> >>)>>)
place_holder_email == S("place_holder@uni-freiburg.com")
no_learning_outcomes == List(<<S("No learning outcomes available")>>)

\* lines 139-141: the record names explicit authorship
has_authorship(training) ==
    /\ ~Falsy(training.contributions)
    /\ dict_has(training.contributions, "authorship")

\* lines 137-148: the authors before the exceptions are looked at
authors_of(training) ==
    LET contributors == training.contributors
        author_ids == dict_get(training.contributions, "authorship")
        names(l) == [i \in DOMAIN l |-> l[i].name]
    IN IF has_authorship(training)
       THEN List(fromkeys(names(SelectSeq2(contributors.items, Range(author_ids.items))), {}))
       ELSE List(fromkeys(names(contributors.items), {}))

\* learningOutcomes_of without the else of lines 171-172
learningOutcomes_of_verbatim(training) ==
    IF training.objectives.ty = "list" THEN training.objectives ELSE List(<<>>)

\* lines 167-172
learningOutcomes_of(training) ==
    IF ~Falsy(training.objectives) THEN List(training.objectives.items)
    ELSE no_learning_outcomes

\* lines 191-203
contact_of(training) ==
    LET main_contributor == training.contributors.items[1]
        main_name == split(main_contributor.name.s, <<>>)
        main_email == IF Falsy(main_contributor.email) THEN place_holder_email
                      ELSE main_contributor.email
    IN Dict(<< <<"firstName", main_name[1]>>,
               <<"lastName", Last(main_name)>>,
               <<"email", main_email>> >>)

\* The first exception that lines 130-203 raise for the training, "" if none.
\* In execution order: iterating the contributors (143, 147), testing
\* membership in the authorship list (144), concatenating the url (149),
\* taking the first contributor (192), splitting its name (193).
raised(training) ==
    LET contributors == training.contributors
        author_ids == dict_get(training.contributions, "authorship")
    IN IF contributors.ty # "list"
       THEN "'NoneType' object is not iterable"
       ELSE IF has_authorship(training) /\ contributors.items # <<>> /\ author_ids.ty # "list"
       THEN "argument of type 'NoneType' is not iterable"
       ELSE IF training.url.ty # "str"
       THEN "can only concatenate str (not \"NoneType\") to str"
       ELSE IF contributors.items = <<>>
       THEN "list index out of range"
       ELSE IF contributors.items[1].name.ty # "str"
       THEN "'NoneType' object has no attribute 'split'"
       ELSE ""

\* lines 209-225
mandatory_fields_of(training) ==
    << <<"id", training.id>>,
       <<"title", training.tutorial_name>>,
       <<"resourceOrganisation", provider_id>>,
       <<"authors", authors_of(training)>>,
       <<"url", Str(base_url.s \o training.url.s)>>,
       <<"license", license>>,
       <<"accessRights", access_rights>>,
       <<"versionDate", version_date>>,
       <<"targetGroups", targetGroups>>,
       <<"learningOutcomes", learningOutcomes_of(training)>>,
       <<"expertiseLevel", translate_level(training.level)>>,
       <<"languages", languages>>,
       <<"geographicalAvailabilities", geographicalAvailabilities>>,
       <<"scientificDomains", scientificDomains>>,
       <<"contact", contact_of(training)>> >>

\* field_failure without the loop of lines 239-245 over the values of a dict
field_failure_shallow(field) == IF Falsy(field[2]) THEN field[1] ELSE ""

\* lines 228-245 for one field: the name the check reports for it, "" if it passes
field_failure(field) ==
    IF Falsy(field[2]) THEN field[1]
    ELSE IF field[2].ty = "dict" /\ \E i \in DOMAIN field[2].items : Falsy(field[2].items[i][2])
    THEN field[2].items[CHOOSE i \in DOMAIN field[2].items :
                            /\ Falsy(field[2].items[i][2])
                            /\ \A j \in 1..(i - 1) : ~Falsy(field[2].items[j][2])][1]
    ELSE ""

\* lines 228-245: the name reported by the first field that fails, "" if none
RECURSIVE first_failure(_)
first_failure(fields) ==
    IF fields = <<>> THEN ""
    ELSE IF field_failure(Head(fields)) # "" THEN field_failure(Head(fields))
    ELSE first_failure(Tail(fields))

\* lines 251-286
data_of(training) ==
    LET m == mandatory_fields_of(training)
    IN Dict(SubSeq(m, 1, 10) \o << m[11], <<"duration", training.time_estimation>> >>
            \o SubSeq(m, 12, 15))

\* training_to_eosc_json with the contact block derived after the check of
\* the authors, so that a training without contributors fails that check
training_to_eosc_json_authors_first(training_json, training) ==
    IF training.contributors = List(<<>>) /\ training.url.ty = "str"
    THEN <<Message(<<"For {training_json} the mandatory field ", "authors", " is not set">>,
                   training_json), training_json>>
    ELSE IF raised(training) # ""
    THEN <<Message(<<"For {training_json} there was an error: ", raised(training)>>,
                   training_json), training_json>>
    ELSE IF first_failure(mandatory_fields_of(training)) # ""
    THEN <<Message(<<"For {training_json} the mandatory field ",
                     first_failure(mandatory_fields_of(training)), " is not set">>,
                   training_json), training_json>>
    ELSE <<data_of(training), training_json>>

training_to_eosc_json(training_json, training) ==
    IF raised(training) # ""
    THEN <<Message(<<"For {training_json} there was an error: ", raised(training)>>,
                   training_json), training_json>>
    ELSE IF first_failure(mandatory_fields_of(training)) # ""
    THEN <<Message(<<"For {training_json} the mandatory field ",
                     first_failure(mandatory_fields_of(training)), " is not set">>,
                   training_json), training_json>>
    ELSE <<data_of(training), training_json>>

-----------------------------------------------------------------------------
(* The remote catalog and the validation API *)

\* number of runs of the script that are followed
MaxRuns == 2

jane == [id |-> S("jdoe"), name |-> Str(<<"Jane", " ", "Doe">>), email |-> S("j@x.org")]

\* a training of topic t1 that maps to an EOSC json
intro1 ==
    [id |-> S("t1/intro"), topic_name |-> S("t1"), tutorial_name |-> S("intro"),
     contributors |-> List(<<jane>>), contributions |-> None,
     url |-> S("/t1/intro"), objectives |-> List(<<S("Learn X")>>),
     level |-> S("Introductory"), time_estimation |-> S("1H")]

\* the same training after an edit of its level
intro1_edited == [intro1 EXCEPT !.level = S("Advanced")]

\* the same training without contributors
intro1_anonymous == [intro1 EXCEPT !.contributors = List(<<>>)]

\* a training of topic t2
intro2 ==
    [intro1 EXCEPT !.id = S("t2/intro"), !.topic_name = S("t2"), !.url = S("/t2/intro")]

\* the answer of the catalog to topics.json
Topics == <<"t1", "t2">>

\* what the catalog may list as the materials of a topic; a training is
\* listed under its own topic, so a file name occurs under one topic only
Materials(topic) ==
    IF topic = "t1" THEN {<<>>, <<intro1>>, <<intro1_edited>>, <<intro1_anonymous>>}
    ELSE {<<>>, <<intro2>>}

\* A call of requests.get followed by raise_for_status either raises a
\* RequestException or yields a response with a json body.
RequestException == [error |-> TRUE]
Response(json) == [error |-> FALSE, json |-> json]

TopicsResponses == {RequestException, Response(List(Topics))}
MaterialsResponses(topic) ==
    {RequestException} \cup {Response(Dict(<< <<"materials", List(m)>> >>)) : m \in Materials(topic)}

\* The answers of the validation API to one POST: a verdict, or an error status
ValidationResponses ==
    {[status_code |-> 200, json |-> Bool(TRUE)],
     [status_code |-> 200, json |-> Bool(FALSE)],
     [status_code |-> 500, text |-> S("Internal Server Error")]}

-----------------------------------------------------------------------------
(* get_api_data, lines 8-18 *)

get_api_data(response) == IF response.error THEN None ELSE response.json

-----------------------------------------------------------------------------
(* The workspace *)

EmptyDir == [x \in {} |-> None]
NoTopics == [exists |-> FALSE, dirs |-> EmptyDir]
NoBuckets == [exists |-> FALSE, new_trainings |-> EmptyDir, updated_trainings |-> EmptyDir]
EmptyBuckets == [exists |-> TRUE, new_trainings |-> EmptyDir, updated_trainings |-> EmptyDir]

\* dir with the file name holding content
WriteFile(dir, name, content) ==
    [x \in DOMAIN dir \cup {name} |-> IF x = name THEN content ELSE dir[x]]

\* os.listdir: the entries of a directory in some fixed order (the order
\* only decides the order of the queued paths and of the log lines)
RECURSIVE listdir(_)
listdir(names) ==
    IF names = {} THEN <<>>
    ELSE LET x == CHOOSE x \in names : TRUE IN <<x>> \o listdir(names \ {x})

\* str() of a value inside an f-string
py_str(v) ==
    CASE v.ty = "str" -> v.s
      [] v.ty = "bool" -> IF v.b THEN <<"True">> ELSE <<"False">>
      [] OTHER -> <<"None">>

\* lines 60-61: the file name of a training
json_name(training) ==
    py_str(training.topic_name) \o <<"_">> \o py_str(training.tutorial_name) \o <<".json">>

\* f"./topics/{topic}/{training}", as its components
Path(topic, name) == <<".", "topics", topic, name>>

\* the parsed content of the file at a path of ./topics
ReadTopics(path) == topics.dirs[path[3]][path[4]]

\* rotate_topics without the rmtree of lines 26-27: an old snapshot stays
rotate_topics_stale(cur) == IF old_topics.exists THEN old_topics ELSE cur

\* lines 26-30 for ./topics and ./old_topics
rotate_topics(cur) == IF cur.exists THEN cur ELSE NoTopics

\* rotate_failures that keeps the old failures when there is no new one
rotate_failures_kept(cur) ==
    IF cur.exists /\ (cur.new_trainings # EmptyDir \/ cur.updated_trainings # EmptyDir)
    THEN cur ELSE old_upload_failures

\* lines 32-38 for ./upload_failures and ./old_upload_failures
rotate_failures(cur) == IF cur.exists THEN cur ELSE NoBuckets

\* wipe_validated without the rmtree of lines 40-41
wipe_validated_kept(cur) == IF cur.exists THEN cur ELSE EmptyBuckets

\* lines 40-44 for ./validated_eosc_jsons
wipe_validated(cur) == EmptyBuckets

-----------------------------------------------------------------------------
(* compare_training_material, lines 66-101 *)

\* the <<topic, file name>> pairs in the order of the two nested listdir loops
RECURSIVE walk(_, _)
walk(dirs, topic_list) ==
    IF topic_list = <<>> THEN <<>>
    ELSE LET topic == Head(topic_list)
             files == listdir(DOMAIN dirs[topic])
         IN [i \in DOMAIN files |-> <<topic, files[i]>>] \o walk(dirs, Tail(topic_list))

\* lines 76-78 and 92-98: os.path.exists(...) and os.path.isfile(...)
in_old_topics(old, topic, training) ==
    old.exists /\ topic \in DOMAIN old.dirs /\ training \in DOMAIN old.dirs[topic]
in_bucket(bucket, training) == training \in DOMAIN bucket

\* lines 75-88: what one file adds to new_trainings, by comparison with ./old_topics
new_by_snapshot(cur, old, topic, training) ==
    IF in_old_topics(old, topic, training) THEN <<>> ELSE <<Path(topic, training)>>

\* updated_by_snapshot without the comparison of line 84
updated_by_snapshot_uncompared(cur, old, topic, training) ==
    IF in_old_topics(old, topic, training) THEN <<Path(topic, training)>> ELSE <<>>

\* lines 75-88: what one file adds to updated_trainings, by comparison with ./old_topics
updated_by_snapshot(cur, old, topic, training) ==
    IF in_old_topics(old, topic, training)
       /\ cur.dirs[topic][training] # old.dirs[topic][training]
    THEN <<Path(topic, training)>> ELSE <<>>

\* lines 90-99: what one file adds to a list because it failed in the previous run
by_failure(bucket, topic, training) ==
    IF in_bucket(bucket, training) THEN <<Path(topic, training)>> ELSE <<>>

RECURSIVE compare_files(_, _, _, _)
compare_files(files, cur, old, old_failures) ==
    IF files = <<>> THEN [new_trainings |-> <<>>, updated_trainings |-> <<>>]
    ELSE LET topic == Head(files)[1]
             training == Head(files)[2]
             rest == compare_files(Tail(files), cur, old, old_failures)
         IN [new_trainings |->
                 new_by_snapshot(cur, old, topic, training)
                 \o by_failure(old_failures.new_trainings, topic, training)
                 \o rest.new_trainings,
             updated_trainings |->
                 updated_by_snapshot(cur, old, topic, training)
                 \o by_failure(old_failures.updated_trainings, topic, training)
                 \o rest.updated_trainings]

compare_training_material(cur, old, old_failures) ==
    compare_files(walk(cur.dirs, listdir(DOMAIN cur.dirs)), cur, old, old_failures)

-----------------------------------------------------------------------------
(* validate_eosc_json, lines 289-305 *)

\* the outcome for a conversion result and, for a converted json, the
\* response of the validation API
validate_eosc_json(eosc_json, response) ==
    LET payload == eosc_json[1]
        training == eosc_json[2]
    IN IF payload.ty # "dict"
       THEN <<Message(<<"Json conversion error: \n">> \o payload.s, payload.path), training>>
       ELSE IF response.status_code # 200
       THEN <<Str(<<"API error: \n">> \o response.text.s), training, payload>>
       ELSE <<response.json, training, payload>>

\* sends_request without the type check of line 297
sends_request_always(eosc_json) == TRUE

\* line 297: the conversion result goes to the API
sends_request(eosc_json) == eosc_json[1].ty = "dict"

-----------------------------------------------------------------------------
(* process_validated_trainings, lines 308-341 *)

\* is_valid that looks for a verdict, not at the verdict
is_valid_any_verdict(training) == training[1].ty = "bool"

\* lines 314 and 329
is_valid(training) == py_str(training[1]) = <<"True">>

\* lines 316 and 331: training[1].split("/")[-1]
training_name(training) == Last(training[2])

\* lines 317-320 and 332-335
write_validated(bucket, training) == WriteFile(bucket, training_name(training), training[3])

\* lines 324 and 339: shutil.copy of the source file into the bucket
copy_failure(bucket, training) ==
    WriteFile(bucket, training_name(training), ReadTopics(training[2]))

\* append_line with the file opened in write mode
append_line_truncating(log, training) == <<training>>

\* lines 325-326 and 340-341: open in append mode and write one line
append_line(log, training) == Append(log, training)

-----------------------------------------------------------------------------
(* __main__, lines 389-411 *)

NoTrainings == [new_trainings |-> <<>>, updated_trainings |-> <<>>]

\* the number of elements the loop of a stage runs over
StageWork(stage, lists) ==
    IF stage \in {"validate_new", "process_new"} THEN Len(lists.new_trainings)
    ELSE Len(lists.updated_trainings)

\* the first of the stages whose loop has an element, "done" if none has
RECURSIVE first_stage(_, _)
first_stage(stages, lists) ==
    IF stages = <<>> THEN "done"
    ELSE IF StageWork(Head(stages), lists) > 0 THEN Head(stages)
    ELSE first_stage(Tail(stages), lists)

\* lines 59-63: the topic folder after the materials are written
RECURSIVE write_trainings(_, _)
write_trainings(dir, materials) ==
    IF materials = <<>> THEN dir
    ELSE write_trainings(WriteFile(dir, json_name(Head(materials)), Head(materials)),
                         Tail(materials))

\* the variables of the running script that a step leaves alone
process_locals == <<training_jsons, new_training_eosc_jsons, update_training_eosc_jsons,
                    validated_new_trainings, validated_updated_trainings, routed, requests>>
unit_vars == <<training_in, training_out>>

Init ==
    /\ pc = "idle"
    /\ run = 0
    /\ topics = NoTopics
    /\ old_topics = NoTopics
    /\ upload_failures = NoBuckets
    /\ old_upload_failures = NoBuckets
    /\ validated_eosc_jsons = NoBuckets
    /\ upload_failures_txt = <<>>
    /\ todo = <<>>
    /\ failed_fetch = {}
    /\ training_jsons = NoTrainings
    /\ new_training_eosc_jsons = <<>>
    /\ update_training_eosc_jsons = <<>>
    /\ validated_new_trainings = <<>>
    /\ validated_updated_trainings = <<>>
    /\ routed = 0
    /\ requests = 0
    /\ training_in = None
    /\ training_out = <<>>

\* A run of the script starts: setup_topics_folder, lines 21-44
setup_topics_folder ==
    /\ pc \in {"idle", "done", "aborted"}
    /\ run < MaxRuns
    /\ run' = run + 1
    /\ old_topics' = rotate_topics(topics)
    /\ topics' = [exists |-> TRUE, dirs |-> EmptyDir]
    /\ old_upload_failures' = rotate_failures(upload_failures)
    /\ upload_failures' = EmptyBuckets
    /\ validated_eosc_jsons' = wipe_validated(validated_eosc_jsons)
    /\ todo' = <<>>
    /\ failed_fetch' = {}
    /\ training_jsons' = NoTrainings
    /\ new_training_eosc_jsons' = <<>>
    /\ update_training_eosc_jsons' = <<>>
    /\ validated_new_trainings' = <<>>
    /\ validated_updated_trainings' = <<>>
    /\ routed' = 0
    /\ requests' = 0
    /\ pc' = "fetch_topics"
    /\ UNCHANGED <<upload_failures_txt, unit_vars>>

\* fetch_trainings, lines 52-54: the list of topics; iterating None raises
fetch_topics ==
    /\ pc = "fetch_topics"
    /\ \E response \in TopicsResponses :
         LET data == get_api_data(response)
         IN IF data = None
            THEN /\ pc' = "aborted"
                 /\ failed_fetch' = failed_fetch \cup {"topics.json"}
                 /\ todo' = todo
            ELSE /\ pc' = IF data.items = <<>> THEN "compare" ELSE "fetch_topic"
                 /\ failed_fetch' = failed_fetch
                 /\ todo' = data.items
    /\ UNCHANGED <<run, topics, old_topics, upload_failures, old_upload_failures,
                   validated_eosc_jsons, upload_failures_txt, process_locals, unit_vars>>

\* fetch_trainings, lines 55-63, for one topic; subscripting None raises
fetch_topic ==
    /\ pc = "fetch_topic"
    /\ todo # <<>>
    /\ LET topic == Head(todo)
       IN \E response \in MaterialsResponses(topic) :
            LET data == get_api_data(response)
            IN IF data = None
               THEN /\ pc' = "aborted"
                    /\ failed_fetch' = failed_fetch \cup {topic}
                    /\ topics' = [topics EXCEPT !.dirs = WriteFile(@, topic, EmptyDir)]
                    /\ todo' = todo
               ELSE /\ pc' = IF Tail(todo) = <<>> THEN "compare" ELSE "fetch_topic"
                    /\ failed_fetch' = failed_fetch
                    /\ topics' = [topics EXCEPT !.dirs =
                           WriteFile(@, topic,
                                     write_trainings(EmptyDir, dict_get(data, "materials").items))]
                    /\ todo' = Tail(todo)
    /\ UNCHANGED <<run, old_topics, upload_failures, old_upload_failures,
                   validated_eosc_jsons, upload_failures_txt, process_locals, unit_vars>>

\* line 394
compare ==
    /\ pc = "compare"
    /\ training_jsons' = compare_training_material(topics, old_topics, old_upload_failures)
    /\ pc' = "map"
    /\ UNCHANGED <<run, topics, old_topics, upload_failures, old_upload_failures,
                   validated_eosc_jsons, upload_failures_txt, todo, failed_fetch,
                   new_training_eosc_jsons, update_training_eosc_jsons,
                   validated_new_trainings, validated_updated_trainings, routed,
                   requests, unit_vars>>

\* lines 395-402
map ==
    /\ pc = "map"
    /\ new_training_eosc_jsons' =
           [i \in DOMAIN training_jsons.new_trainings |->
               training_to_eosc_json(training_jsons.new_trainings[i],
                                     ReadTopics(training_jsons.new_trainings[i]))]
    /\ update_training_eosc_jsons' =
           [i \in DOMAIN training_jsons.updated_trainings |->
               training_to_eosc_json(training_jsons.updated_trainings[i],
                                     ReadTopics(training_jsons.updated_trainings[i]))]
    /\ pc' = first_stage(<<"validate_new", "validate_updated", "process_new",
                           "process_updated">>, training_jsons)
    /\ UNCHANGED <<run, topics, old_topics, upload_failures, old_upload_failures,
                   validated_eosc_jsons, upload_failures_txt, todo, failed_fetch,
                   training_jsons, validated_new_trainings, validated_updated_trainings,
                   routed, requests, unit_vars>>


\* One call of validate_eosc_json inside the list comprehensions of lines
\* 404-409.  requests.post either returns a response or raises a
\* RequestException (connection error, timeout), which nothing catches.
validate_next(stage, eosc_jsons, validated, validated_next, later_stages) ==
    /\ pc = stage
    /\ Len(validated) < Len(eosc_jsons)
    /\ LET eosc_json == eosc_jsons[Len(validated) + 1]
           finished == Len(validated) + 1 = Len(eosc_jsons)
           continue == IF finished THEN first_stage(later_stages, training_jsons) ELSE stage
       IN IF ~sends_request(eosc_json)
          THEN /\ validated_next = Append(validated, validate_eosc_json(eosc_json, None))
               /\ requests' = requests
               /\ pc' = continue
          ELSE \/ \E response \in ValidationResponses :
                    /\ validated_next = Append(validated, validate_eosc_json(eosc_json, response))
                    /\ requests' = requests + 1
                    /\ pc' = continue
               \/ /\ validated_next = validated
                  /\ requests' = requests + 1
                  /\ pc' = "aborted"

\* lines 404-406
validate_new ==
    /\ validate_next("validate_new", new_training_eosc_jsons, validated_new_trainings,
                     validated_new_trainings',
                     <<"validate_updated", "process_new", "process_updated">>)
    /\ UNCHANGED <<run, topics, old_topics, upload_failures, old_upload_failures,
                   validated_eosc_jsons, upload_failures_txt, todo, failed_fetch,
                   training_jsons, new_training_eosc_jsons, update_training_eosc_jsons,
                   validated_updated_trainings, routed, unit_vars>>

\* lines 407-409
validate_updated ==
    /\ validate_next("validate_updated", update_training_eosc_jsons,
                     validated_updated_trainings, validated_updated_trainings',
                     <<"process_new", "process_updated">>)
    /\ UNCHANGED <<run, topics, old_topics, upload_failures, old_upload_failures,
                   validated_eosc_jsons, upload_failures_txt, todo, failed_fetch,
                   training_jsons, new_training_eosc_jsons, update_training_eosc_jsons,
                   validated_new_trainings, routed, unit_vars>>

\* One iteration of a loop of process_validated_trainings over the outcomes
\* of a category, whose folders are validated_eosc_jsons/category and
\* upload_failures/category
process_next(stage, category, outcomes, later_stages) ==
    /\ pc = stage
    /\ routed < Len(outcomes)
    /\ LET training == outcomes[routed + 1]
           finished == routed + 1 = Len(outcomes)
       IN /\ IF is_valid(training)
             THEN /\ validated_eosc_jsons' =
                        [validated_eosc_jsons EXCEPT ![category] = write_validated(@, training)]
                  /\ UNCHANGED <<upload_failures, upload_failures_txt>>
             ELSE /\ upload_failures' =
                        [upload_failures EXCEPT ![category] = copy_failure(@, training)]
                  /\ upload_failures_txt' = append_line(upload_failures_txt, training)
                  /\ UNCHANGED validated_eosc_jsons
          /\ routed' = IF finished THEN 0 ELSE routed + 1
          /\ pc' = IF finished THEN first_stage(later_stages, training_jsons) ELSE stage

\* lines 313-326
process_new ==
    /\ process_next("process_new", "new_trainings", validated_new_trainings,
                    <<"process_updated">>)
    /\ UNCHANGED <<run, topics, old_topics, old_upload_failures, todo, failed_fetch,
                   training_jsons, new_training_eosc_jsons, update_training_eosc_jsons,
                   validated_new_trainings, validated_updated_trainings, requests,
                   unit_vars>>

\* lines 328-341
process_updated ==
    /\ process_next("process_updated", "updated_trainings", validated_updated_trainings,
                    <<>>)
    /\ UNCHANGED <<run, topics, old_topics, old_upload_failures, todo, failed_fetch,
                   training_jsons, new_training_eosc_jsons, update_training_eosc_jsons,
                   validated_new_trainings, validated_updated_trainings, requests,
                   unit_vars>>

Next ==
    \/ setup_topics_folder
    \/ fetch_topics
    \/ fetch_topic
    \/ compare
    \/ map
    \/ validate_new
    \/ validate_updated
    \/ process_new
    \/ process_updated

Spec == Init /\ [][Next]_vars

-----------------------------------------------------------------------------
(* training_to_eosc_json on its own: one call per training *)

cher == [id |-> S("cher"), name |-> S("Cher"), email |-> None]
nameless == [id |-> S("nn"), name |-> None, email |-> None]
blank == [id |-> S("bl"), name |-> Str(<<>>), email |-> None]
trailing == [id |-> S("tr"), name |-> Str(<<"Jane", " ">>), email |-> S("j@x.org")]

\* the training of topic admin that has the keys topic_name, tutorial_name,
\* contributors, objectives, level, time_estimation and url and no other
admin_intro ==
    [id |-> None, topic_name |-> S("admin"), tutorial_name |-> S("intro"),
     contributors |-> List(<<[id |-> None, name |-> Str(<<"Jane", " ", "Doe">>),
                              email |-> S("j@x.org")]>>),
     contributions |-> None, url |-> S("/admin/intro"),
     objectives |-> List(<<S("Learn X")>>), level |-> S("Introductory"),
     time_estimation |-> S("1H")]

\* the trainings the conversion is called with
TrainingInputs ==
    {admin_intro} \cup
    [id : {None, Str(<<>>), S("t1/intro")},
     topic_name : {S("t1")},
     tutorial_name : {Str(<<>>), S("intro")},
     contributors : {None, List(<<>>), List(<<jane>>), List(<<cher, jane>>),
                     List(<<jane, jane>>), List(<<nameless>>), List(<<blank>>),
                     List(<<trailing>>)},
     contributions : {None, Dict(<<>>),
                      Dict(<< <<"editing", List(<<S("jdoe")>>)>> >>),
                      Dict(<< <<"authorship", List(<<S("jdoe")>>)>> >>),
                      Dict(<< <<"authorship", List(<<S("nobody")>>)>> >>),
                      Dict(<< <<"authorship", None>> >>)},
     url : {None, S("/t1/intro")},
     objectives : {None, List(<<>>), List(<<S("Learn X")>>)},
     level : {None, S("Introductory"), S("Any"), S("Intermediate"), S("Advanced"),
              S("Expert")},
     time_estimation : {None, S("1H")}]

\* the path the training is read from
unit_json == Path("t1", <<"t1", "_", "intro", ".json">>)

pipeline_vars == <<run, topics, old_topics, upload_failures, old_upload_failures,
                   validated_eosc_jsons, upload_failures_txt, todo, failed_fetch,
                   process_locals>>

InitMap ==
    /\ pc = "unit"
    /\ run = 0
    /\ topics = NoTopics
    /\ old_topics = NoTopics
    /\ upload_failures = NoBuckets
    /\ old_upload_failures = NoBuckets
    /\ validated_eosc_jsons = NoBuckets
    /\ upload_failures_txt = <<>>
    /\ todo = <<>>
    /\ failed_fetch = {}
    /\ training_jsons = NoTrainings
    /\ new_training_eosc_jsons = <<>>
    /\ update_training_eosc_jsons = <<>>
    /\ validated_new_trainings = <<>>
    /\ validated_updated_trainings = <<>>
    /\ routed = 0
    /\ requests = 0
    /\ training_in \in TrainingInputs
    /\ training_out = <<>>

convert ==
    /\ pc = "unit"
    /\ training_out = <<>>
    /\ training_out' = training_to_eosc_json(unit_json, training_in)
    /\ UNCHANGED <<pc, training_in, pipeline_vars>>

NextMap == convert

SpecMap == InitMap /\ [][NextMap]_vars

-----------------------------------------------------------------------------
(* setup_topics_folder on its own: calls on the workspaces that runs leave *)

\* the files of all topic folders of a snapshot, by name
files_of(snapshot) ==
    LET names == UNION {DOMAIN snapshot.dirs[t] : t \in DOMAIN snapshot.dirs}
    IN [n \in names |->
           snapshot.dirs[CHOOSE t \in DOMAIN snapshot.dirs : n \in DOMAIN snapshot.dirs[t]][n]]

Restrict(f, names) == [n \in names |-> f[n]]

\* the training of a file can be converted
Convertible(training) ==
    raised(training) = "" /\ first_failure(mandatory_fields_of(training)) = ""

\* the snapshots that fetch_trainings leaves in ./topics
LeftTopics ==
    {[exists |-> TRUE, dirs |-> EmptyDir]} \cup
    {[exists |-> TRUE,
      dirs |-> WriteFile(WriteFile(EmptyDir, "t1", write_trainings(EmptyDir, m1)),
                         "t2", write_trainings(EmptyDir, m2))] :
        m1 \in Materials("t1"), m2 \in Materials("t2")}

\* the failure folders that process_validated_trainings leaves for a snapshot
LeftFailures(snapshot) ==
    {[exists |-> TRUE,
      new_trainings |-> Restrict(files_of(snapshot), new),
      updated_trainings |-> Restrict(files_of(snapshot), updated)] :
        new \in SUBSET DOMAIN files_of(snapshot),
        updated \in SUBSET DOMAIN files_of(snapshot)}

\* the validated folders that process_validated_trainings leaves for a snapshot
LeftValidated(snapshot) ==
    {[exists |-> TRUE,
      new_trainings |-> [n \in new |-> data_of(files_of(snapshot)[n])],
      updated_trainings |-> EmptyDir] :
        new \in SUBSET {n \in DOMAIN files_of(snapshot) : Convertible(files_of(snapshot)[n])}}

\* The workspace before a call: nothing exists (first run), or the folders of
\* one earlier run exist, or those of two earlier runs.
InitReset ==
    /\ run = 0
    /\ \/ /\ pc = "idle"
          /\ topics = NoTopics
          /\ upload_failures = NoBuckets
          /\ validated_eosc_jsons = NoBuckets
          /\ old_topics = NoTopics
          /\ old_upload_failures = NoBuckets
       \/ /\ pc = "done"
          /\ topics \in LeftTopics
          /\ upload_failures \in LeftFailures(topics)
          /\ validated_eosc_jsons \in LeftValidated(topics)
          /\ \/ /\ old_topics = NoTopics
                /\ old_upload_failures = NoBuckets
             \/ /\ old_topics \in LeftTopics
                /\ old_upload_failures \in LeftFailures(old_topics)
    /\ upload_failures_txt = <<>>
    /\ todo = <<>>
    /\ failed_fetch = {}
    /\ training_jsons = NoTrainings
    /\ new_training_eosc_jsons = <<>>
    /\ update_training_eosc_jsons = <<>>
    /\ validated_new_trainings = <<>>
    /\ validated_updated_trainings = <<>>
    /\ routed = 0
    /\ requests = 0
    /\ training_in = None
    /\ training_out = <<>>

\* a call of setup_topics_folder, and the script ending in fetch_trainings
\* before it writes anything, so that the next call follows in a row
NextReset ==
    \/ setup_topics_folder
    \/ fetch_topics

SpecReset == InitReset /\ [][NextReset]_vars

-----------------------------------------------------------------------------
(* Properties *)

Categories == {"new_trainings", "updated_trainings"}

\* the positions of the script after compare_training_material has returned
Compared == {"map", "validate_new", "validate_updated", "process_new",
             "process_updated", "done"}

\* the <<topic, file name>> pairs of the current snapshot
Snapshot == {tn \in UNION {{<<t, n>> : n \in DOMAIN topics.dirs[t]} : t \in DOMAIN topics.dirs} : TRUE}

\* the paths queued by the Change Detector in this run
Queued == Range(training_jsons.new_trainings) \cup Range(training_jsons.updated_trainings)

\* the number of outcomes of a list that belong to a path
Outcomes(validated, path) == Cardinality({i \in DOMAIN validated : validated[i][2] = path})

InSuccessStore(name) ==
    \E c \in Categories : name \in DOMAIN validated_eosc_jsons[c]
InFailureStore(name) ==
    \E c \in Categories : name \in DOMAIN upload_failures[c]

IsPrefix(s, t) == Len(s) <= Len(t) /\ SubSeq(t, 1, Len(s)) = s

\* C1: in every completed run every queued record has exactly one
\* validation outcome and is, at the end of the run, in exactly one of the
\* validated-success store and the failure store.
C1_ExactlyOneOutcome ==
    pc = "done" =>
        \A path \in Queued :
            /\ Outcomes(validated_new_trainings, path)
               + Outcomes(validated_updated_trainings, path) = 1
            /\ InSuccessStore(Last(path)) # InFailureStore(Last(path))

\* C2: a record that was routed to the failure store under a category in
\* the previous run and is in the snapshot of this run is queued under the
\* category again by this run, and this goes on until it is accepted: when
\* the run has ended the record is accepted or again in the failure store
\* under the category; a record that is in no failure bucket and unchanged
\* is not queued.
C2_RetriedUntilAccepted ==
    pc \in {"done", "aborted"} =>
        \A tn \in Snapshot :
            /\ \A c \in Categories :
                 tn[2] \in DOMAIN old_upload_failures[c] =>
                     /\ Path(tn[1], tn[2]) \in Range(training_jsons[c])
                     /\ \/ tn[2] \in DOMAIN validated_eosc_jsons[c]
                        \/ tn[2] \in DOMAIN upload_failures[c]
            /\ ( /\ pc = "done"
                 /\ \A c \in Categories : tn[2] \notin DOMAIN old_upload_failures[c]
                 /\ old_topics.exists
                 /\ tn[1] \in DOMAIN old_topics.dirs
                 /\ tn[2] \in DOMAIN old_topics.dirs[tn[1]]
                 /\ old_topics.dirs[tn[1]][tn[2]] = topics.dirs[tn[1]][tn[2]] )
               => Path(tn[1], tn[2]) \notin Queued

\* C3: for every file of the current snapshot whose name is in neither
\* failure bucket of the previous run, compare_training_material puts it in
\* new_trainings iff the previous snapshot has no file of that name under the
\* topic, in updated_trainings iff it has one with a different parsed
\* content, and in neither list otherwise.
C3_Classification ==
    pc \in Compared =>
        \A tn \in Snapshot :
            (\A c \in Categories : tn[2] \notin DOMAIN old_upload_failures[c]) =>
                LET path == Path(tn[1], tn[2])
                    known == /\ old_topics.exists
                             /\ tn[1] \in DOMAIN old_topics.dirs
                             /\ tn[2] \in DOMAIN old_topics.dirs[tn[1]]
                    differs == old_topics.dirs[tn[1]][tn[2]] # topics.dirs[tn[1]][tn[2]]
                IN /\ path \in Range(training_jsons.new_trainings) <=> ~known
                   /\ path \in Range(training_jsons.updated_trainings) <=> (known /\ differs)

\* C3 happens: in a second run one training is queued as updated because its
\* content changed and an unchanged one is left out of both lists
C3_Witness ==
    /\ pc = "done"
    /\ training_jsons.new_trainings = <<>>
    /\ Len(training_jsons.updated_trainings) = 1
    /\ Cardinality(Snapshot) = 2
    /\ old_upload_failures = EmptyBuckets
    /\ \A tn \in Snapshot : /\ tn[1] \in DOMAIN old_topics.dirs
                            /\ tn[2] \in DOMAIN old_topics.dirs[tn[1]]

\* C4: when the materials call of a topic fails the run is not aborted and
\* the topic has a folder without records.
C4_TopicFailureTolerated ==
    \A topic \in failed_fetch \ {"topics.json"} :
        /\ pc # "aborted"
        /\ topic \in DOMAIN topics.dirs
        /\ topics.dirs[topic] = EmptyDir


\* what the router does with the next outcome of a category: for a verdict
\* whose string form is "True" the converted json goes to
\* validated_eosc_jsons/category and nothing else changes, for every other
\* outcome the source file goes to upload_failures/category, one line is
\* added to the log and validated_eosc_jsons stays as it is
RoutedAsClaimed(category, training) ==
    LET name == Last(training[2])
        source == topics.dirs[training[2][3]][training[2][4]]
    IN IF py_str(training[1]) = <<"True">>
       THEN /\ validated_eosc_jsons' =
                  [validated_eosc_jsons EXCEPT ![category] = WriteFile(@, name, training[3])]
            /\ upload_failures' = upload_failures
            /\ upload_failures_txt' = upload_failures_txt
       ELSE /\ upload_failures' =
                  [upload_failures EXCEPT ![category] = WriteFile(@, name, source)]
            /\ Len(upload_failures_txt') = Len(upload_failures_txt) + 1
            /\ IsPrefix(upload_failures_txt, upload_failures_txt')
            /\ validated_eosc_jsons' = validated_eosc_jsons

\* C5: every outcome passed to the router under a category is stored as
\* RoutedAsClaimed says: success store only for the verdict "True", failure
\* store and exactly one log line for a MappingError, an ApiError and a
\* rejected verdict.
C5_Routing ==
    [][/\ pc = "process_new" =>
            RoutedAsClaimed("new_trainings", validated_new_trainings[routed + 1])
       /\ pc = "process_updated" =>
            RoutedAsClaimed("updated_trainings", validated_updated_trainings[routed + 1])]_vars

\* the kind of an outcome
IsMappingError(training) == Len(training) = 2
IsApiError(training) ==
    Len(training) = 3 /\ training[1].ty = "str" /\ training[1].s[1] = "API error: \n"
IsRejected(training) == Len(training) = 3 /\ training[1] = Bool(FALSE)
IsAccepted(training) == Len(training) = 3 /\ training[1] = Bool(TRUE)

\* C5 happens: a run has routed an accepted training to the success store
\* and a MappingError to the failure store, and the log holds the lines of an
\* ApiError, a rejected verdict and a MappingError
C5_Witness ==
    /\ pc = "done"
    /\ \E i \in DOMAIN validated_new_trainings :
         /\ IsAccepted(validated_new_trainings[i])
         /\ Last(validated_new_trainings[i][2]) \in DOMAIN validated_eosc_jsons.new_trainings
    /\ \E i \in DOMAIN validated_updated_trainings :
         /\ IsMappingError(validated_updated_trainings[i])
         /\ Last(validated_updated_trainings[i][2]) \in DOMAIN upload_failures.updated_trainings
    /\ \E i \in DOMAIN upload_failures_txt : IsApiError(upload_failures_txt[i])
    /\ \E i \in DOMAIN upload_failures_txt : IsRejected(upload_failures_txt[i])
    /\ \E i \in DOMAIN upload_failures_txt : IsMappingError(upload_failures_txt[i])

\* C6: upload_failures.txt only grows by appending, in every step of every
\* run, and setup_topics_folder leaves the upload_failures folders empty.
C6_LogAppendOnly ==
    [][/\ IsPrefix(upload_failures_txt, upload_failures_txt')
       /\ run' # run => upload_failures' = EmptyBuckets]_vars

\* C6 happens: a later run has reset the failure folders and added to the
\* log lines of an earlier run
C6_Witness ==
    /\ run = 2
    /\ pc = "done"
    /\ old_upload_failures.new_trainings # EmptyDir
    /\ upload_failures.new_trainings = EmptyDir
    /\ upload_failures.updated_trainings # EmptyDir
    /\ Len(upload_failures_txt) >= 3

\* the script has died in a call of requests.post
ValidationAborted == pc = "aborted" /\ failed_fetch = {}

\* the category and the path of the record whose validation call was the last one
LastCalled ==
    IF Len(validated_new_trainings) < Len(new_training_eosc_jsons)
    THEN <<"new_trainings", new_training_eosc_jsons[Len(validated_new_trainings) + 1][2]>>
    ELSE <<"updated_trainings",
           update_training_eosc_jsons[Len(validated_updated_trainings) + 1][2]>>

\* C7: a record whose validation call fails with a network failure is in the
\* failure bucket of its category when the run ends, called once, and a next
\* run that fetches the same snapshot queues it again.
C7_NetworkFailureRequeued ==
    ValidationAborted =>
        /\ Last(LastCalled[2]) \in DOMAIN upload_failures[LastCalled[1]]
        /\ LastCalled[2] \in
               Range(compare_training_material(topics, rotate_topics(topics),
                                               rotate_failures(upload_failures))[LastCalled[1]])

\* a conversion result or an outcome of this run is a MappingError, an
\* ApiError or a rejected verdict
SomeRecordFailed ==
    \/ \E i \in DOMAIN new_training_eosc_jsons : new_training_eosc_jsons[i][1].ty # "dict"
    \/ \E i \in DOMAIN update_training_eosc_jsons : update_training_eosc_jsons[i][1].ty # "dict"
    \/ \E i \in DOMAIN validated_new_trainings :
         IsApiError(validated_new_trainings[i]) \/ IsRejected(validated_new_trainings[i])
    \/ \E i \in DOMAIN validated_updated_trainings :
         IsApiError(validated_updated_trainings[i]) \/ IsRejected(validated_updated_trainings[i])

\* C8: when a queued record ends in a MappingError, an ApiError or a
\* rejected verdict the run does not abort, and when the run is over every
\* queued record has been mapped, validated and routed to a store.
C8_ErrorsAreLocal ==
    /\ SomeRecordFailed => pc # "aborted"
    /\ pc = "done" =>
         /\ Len(validated_new_trainings) = Len(training_jsons.new_trainings)
         /\ Len(validated_updated_trainings) = Len(training_jsons.updated_trainings)
         /\ \A path \in Queued : InSuccessStore(Last(path)) \/ InFailureStore(Last(path))


\* the payload of a conversion result is a converted json in which every
\* mandatory field is non-falsy, and every value of a field that is a dict
MappedRecord(payload) ==
    /\ payload.ty = "dict"
    /\ {payload.items[i][1] : i \in DOMAIN payload.items} =
           {"id", "title", "resourceOrganisation", "authors", "url", "license",
            "accessRights", "versionDate", "targetGroups", "learningOutcomes",
            "expertiseLevel", "duration", "languages", "geographicalAvailabilities",
            "scientificDomains", "contact"}
    /\ \A i \in DOMAIN payload.items :
         payload.items[i][1] # "duration" =>
             /\ ~Falsy(payload.items[i][2])
             /\ payload.items[i][2].ty = "dict" =>
                  \A j \in DOMAIN payload.items[i][2].items :
                      ~Falsy(payload.items[i][2].items[j][2])

\* the payload is the message that names a mandatory field, or a key of the
\* contact block, whose value is falsy in the mapping derived from the training
FieldError(payload, training) ==
    /\ payload.ty = "str"
    /\ Len(payload.s) = 3
    /\ payload.s[1] = "For {training_json} the mandatory field "
    /\ payload.s[3] \in {" is not set", " is empty"}
    /\ \E i \in DOMAIN mandatory_fields_of(training) :
         LET field == mandatory_fields_of(training)[i]
         IN \/ field[1] = payload.s[2] /\ Falsy(field[2])
            \/ /\ field[2].ty = "dict"
               /\ \E j \in DOMAIN field[2].items :
                    field[2].items[j][1] = payload.s[2] /\ Falsy(field[2].items[j][2])

\* the fields of the training cannot be derived: the contributors are
\* missing or empty, the authorship is no list, the url is missing or the
\* first contributor has no name
Underivable(training) ==
    \/ training.contributors.ty # "list"
    \/ training.contributors.items = <<>>
    \/ training.url.ty # "str"
    \/ training.contributors.items[1].name.ty # "str"
    \/ /\ ~Falsy(training.contributions)
       /\ \E i \in DOMAIN training.contributions.items :
            /\ training.contributions.items[i][1] = "authorship"
            /\ training.contributions.items[i][2].ty # "list"

\* the payload is the message made from a caught exception
ExceptionError(payload) ==
    /\ payload.ty = "str"
    /\ Len(payload.s) = 2
    /\ payload.s[1] = "For {training_json} there was an error: "
    /\ payload.s[2] # ""

\* C9 as claimed: the conversion of a training yields a converted json with
\* every mandatory field non-falsy or a MappingError that names a mandatory
\* field which is falsy in the derived mapping, and nothing else.
C9_MappedOrFieldError ==
    training_out # <<>> =>
        /\ Len(training_out) = 2
        /\ \/ MappedRecord(training_out[1])
           \/ FieldError(training_out[1], training_in)

\* C9 as amended: the conversion of a training yields a converted json with
\* every mandatory field non-falsy, or a MappingError that names a mandatory
\* field or contact key which is falsy in the derived mapping, or, for a
\* training whose fields cannot be derived, a MappingError that carries the
\* description of the exception; nothing else.
C9_MappedOrError ==
    training_out # <<>> =>
        /\ Len(training_out) = 2
        /\ \/ MappedRecord(training_out[1])
           \/ FieldError(training_out[1], training_in)
           \/ ExceptionError(training_out[1]) /\ Underivable(training_in)

\* C9 happens: a training whose first contributor is "Jane " is refused
\* because of the empty lastName of the contact block
C9_Witness ==
    /\ training_out # <<>>
    /\ training_in.contributors = List(<<trailing>>)
    /\ training_out[1].ty = "str"
    /\ training_out[1].s[2] = "lastName"

\* the result carries the path of the training, and a message its path too
CarriesIdentity(result, training_json) ==
    /\ Len(result) = 2
    /\ result[2] = training_json
    /\ result[1].ty = "str" => result[1].path = training_json

\* C10 as claimed: the conversion yields a MappingError with the path of
\* the training for a training without contributors, with a missing key or
\* a malformed structure, and for a training without contributors it is the
\* error of the mandatory field authors.
C10_ZeroContributorsAuthorsError ==
    training_out # <<>> =>
        /\ CarriesIdentity(training_out, unit_json)
        /\ Underivable(training_in) => training_out[1].ty = "str"
        /\ training_in.contributors = List(<<>>) =>
               /\ FieldError(training_out[1], training_in)
               /\ training_out[1].s[2] = "authors"

\* C10 as amended: the conversion yields a MappingError with the path of
\* the training for a training without contributors, with a missing key or
\* a malformed structure; for a training without contributors it is the
\* error made from the exception of line 192 (list index out of range) or,
\* when the url is missing too, of line 149, never the error of the field
\* authors.
C10_NeverRaises ==
    training_out # <<>> =>
        /\ CarriesIdentity(training_out, unit_json)
        /\ Underivable(training_in) => ExceptionError(training_out[1])
        /\ training_in.contributors = List(<<>>) =>
               /\ ExceptionError(training_out[1])
               /\ training_out[1].s[2] =
                      IF training_in.url.ty = "str" THEN "list index out of range"
                      ELSE "can only concatenate str (not \"NoneType\") to str"

\* C10 happens: a training without contributors and with a url has been
\* converted
C10_Witness ==
    /\ training_out # <<>>
    /\ training_in.contributors = List(<<>>)
    /\ training_in.url.ty = "str"
    /\ training_out[1].ty = "str"


\* C11: the conversion of admin_intro yields a converted json, not a
\* MappingError, with expertiseLevel tr_expertise_level-beginner, authors
\* ["Jane Doe"], contact Jane / Doe / j@x.org and url <base>/admin/intro.
C11_AdminIntroMapped ==
    (training_in = admin_intro /\ training_out # <<>>) =>
        /\ training_out[1].ty = "dict"
        /\ dict_get(training_out[1], "expertiseLevel") = S("tr_expertise_level-beginner")
        /\ dict_get(training_out[1], "authors") = List(<<Str(<<"Jane", " ", "Doe">>)>>)
        /\ dict_get(training_out[1], "contact") =
               Dict(<< <<"firstName", S("Jane")>>, <<"lastName", S("Doe")>>,
                       <<"email", S("j@x.org")>> >>)
        /\ dict_get(training_out[1], "url") = Str(base_url.s \o <<"/admin/intro">>)


\* the five folders that setup_topics_folder works on
Workspace == <<topics, old_topics, upload_failures, old_upload_failures,
               validated_eosc_jsons>>

\* C12: from every workspace, the first run included, setup_topics_folder
\* succeeds; afterwards old_topics is what topics was (what old_topics was is
\* gone), topics is empty, old_upload_failures is what upload_failures was,
\* and upload_failures and validated_eosc_jsons exist with two empty folders.
C12_Reset ==
    [][run' # run =>
          /\ pc' = "fetch_topics"
          /\ old_topics' = topics
          /\ topics' = [exists |-> TRUE, dirs |-> EmptyDir]
          /\ old_upload_failures' = upload_failures
          /\ upload_failures' = EmptyBuckets
          /\ validated_eosc_jsons' = EmptyBuckets]_vars

\* C12 happens: a call has moved a snapshot with files and a failure store
\* with files to the previous slots and left the three other folders empty
C12_Witness ==
    /\ run = 1
    /\ pc = "fetch_topics"
    /\ files_of(old_topics) # EmptyDir
    /\ old_upload_failures.new_trainings # EmptyDir
    /\ topics.dirs = EmptyDir
    /\ upload_failures = EmptyBuckets
    /\ validated_eosc_jsons = EmptyBuckets

\* C13 as claimed: a second call of setup_topics_folder in a row leaves the
\* five folders as the first call left them.
C13_Idempotent ==
    [][(run = 1 /\ run' = 2) => Workspace' = Workspace]_vars

\* C13 as amended: a second call of setup_topics_folder in a row leaves
\* topics, upload_failures and validated_eosc_jsons as the first call left
\* them (empty) and replaces old_topics and old_upload_failures by these
\* empty folders, so what the first call had moved there is lost.
C13_SecondResetEmptiesPrevious ==
    [][(run = 1 /\ run' = 2) =>
          /\ topics' = topics
          /\ upload_failures' = upload_failures
          /\ validated_eosc_jsons' = validated_eosc_jsons
          /\ old_topics' = [exists |-> TRUE, dirs |-> EmptyDir]
          /\ old_upload_failures' = EmptyBuckets]_vars

\* C13 happens: two calls in a row have been made and the previous slots are empty
C13_Witness ==
    /\ run = 2
    /\ pc = "fetch_topics"
    /\ old_topics = [exists |-> TRUE, dirs |-> EmptyDir]
    /\ old_upload_failures = EmptyBuckets
    /\ topics.dirs = EmptyDir


\* the outcome is the MappingError itself: its message and its identity
Unchanged(eosc_json, outcome) ==
    /\ Len(outcome) = 2
    /\ outcome[2] = eosc_json[2]
    /\ outcome[1].path = eosc_json[1].path
    /\ outcome[1].s = eosc_json[1].s

\* the outcome holds the whole message of the MappingError after the words
\* "Json conversion error: \n", and its identity
Prefixed(eosc_json, outcome) ==
    /\ Len(outcome) = 2
    /\ outcome[2] = eosc_json[2]
    /\ outcome[1].path = eosc_json[1].path
    /\ outcome[1].s = <<"Json conversion error: \n">> \o eosc_json[1].s

\* a step of validate_eosc_json on the next of eosc_jsons: a MappingError
\* makes no request, does not abort and gives an outcome that carries it;
\* a request is made only for a converted json
ValidateStep(eosc_jsons, validated, validated_next, Carries(_, _)) ==
    LET eosc_json == eosc_jsons[Len(validated) + 1]
    IN /\ eosc_json[1].ty # "dict" =>
              /\ requests' = requests
              /\ pc' # "aborted"
              /\ Len(validated_next) = Len(validated) + 1
              /\ Carries(eosc_json, Last(validated_next))
       /\ requests' # requests => eosc_json[1].ty = "dict"

\* a step of process_validated_trainings on the next outcome of a category:
\* the outcome of a MappingError goes to upload_failures and to the log
RouteStep(category, outcomes) ==
    LET training == outcomes[routed + 1]
    IN Len(training) = 2 =>
           /\ training_name(training) \in DOMAIN upload_failures'[category]
           /\ upload_failures_txt' = Append(upload_failures_txt, training)
           /\ validated_eosc_jsons' = validated_eosc_jsons

ValidateAndRoute(Carries(_, _)) ==
    /\ pc = "validate_new" =>
           ValidateStep(new_training_eosc_jsons, validated_new_trainings,
                        validated_new_trainings', Carries)
    /\ pc = "validate_updated" =>
           ValidateStep(update_training_eosc_jsons, validated_updated_trainings,
                        validated_updated_trainings', Carries)
    /\ pc = "process_new" => RouteStep("new_trainings", validated_new_trainings)
    /\ pc = "process_updated" => RouteStep("updated_trainings", validated_updated_trainings)

\* C14 as claimed: validate_eosc_json makes no request for a MappingError
\* and returns an outcome with the same message and the same identity, which
\* process_validated_trainings puts in upload_failures; it makes a request
\* only for a converted json.
C14_PassedUnchanged == [][ValidateAndRoute(Unchanged)]_vars

\* C14 as amended: validate_eosc_json makes no request for a MappingError
\* and returns an outcome with the same identity whose message is the
\* MappingError's message after the words "Json conversion error: \n", which
\* process_validated_trainings puts in upload_failures; it makes a request
\* only for a converted json.
C14_PassedPrefixed == [][ValidateAndRoute(Prefixed)]_vars

\* C14 happens: a run made a request for one training and none for another,
\* whose MappingError is in upload_failures
C14_Witness ==
    /\ pc = "done"
    /\ requests = 1
    /\ \E training \in Range(validated_new_trainings) :
           /\ Len(training) = 2
           /\ training_name(training) \in DOMAIN upload_failures.new_trainings
    /\ \E training \in Range(validated_new_trainings) : Len(training) = 3


NoDuplicates(l) == Cardinality(Range(l)) = Len(l)

\* C15: after compare_training_material no path is in both new_trainings and
\* updated_trainings and no path occurs twice within one of the two lists.
C15_Partition ==
    pc \in Compared =>
        /\ Range(training_jsons.new_trainings) \cap Range(training_jsons.updated_trainings) = {}
        /\ NoDuplicates(training_jsons.new_trainings)
        /\ NoDuplicates(training_jsons.updated_trainings)


\* the expertise level that the lookup of C16 gives
ClaimedLevel(level) ==
    CASE level = S("Introductory") -> S("tr_expertise_level-beginner")
      [] level = S("Any") -> S("tr_expertise_level-all")
      [] level = S("Intermediate") -> S("tr_expertise_level-intermediate")
      [] OTHER -> S("tr_expertise_level-advanced")

\* C16: translate_level gives beginner for Introductory, all for Any,
\* intermediate for Intermediate, advanced for Advanced and for every other
\* level, a missing one included; tr_expertise_level-all is returned for Any
\* only, never as the fallback; a converted json holds this level.
C16_TranslateLevel ==
    training_out # <<>> =>
        /\ translate_level(training_in.level) = ClaimedLevel(training_in.level)
        /\ training_in.level # S("Any") =>
               translate_level(training_in.level) # S("tr_expertise_level-all")
        /\ training_out[1].ty = "dict" =>
               dict_get(training_out[1], "expertiseLevel") = ClaimedLevel(training_in.level)

\* C16 happens: a training without level and one with an unknown level have
\* been converted, with expertiseLevel advanced
C16_Witness ==
    /\ training_out # <<>>
    /\ training_out[1].ty = "dict"
    /\ training_in.level \in {None, S("Expert")}
    /\ dict_get(training_out[1], "expertiseLevel") = S("tr_expertise_level-advanced")

\* the training with an objective
WithObjectives(training) == [training EXCEPT !.objectives = List(<<S("Learn X")>>)]

\* C17: a training whose objectives are absent or empty is converted with
\* learningOutcomes ["No learning outcomes available"], and when it is not
\* converted the MappingError is the one it has with objectives too; a
\* training with a non-empty objectives list is converted with
\* learningOutcomes equal to that list.
C17_LearningOutcomes ==
    training_out # <<>> =>
        /\ (training_out[1].ty = "dict" /\ Falsy(training_in.objectives)) =>
               dict_get(training_out[1], "learningOutcomes") =
                   List(<<S("No learning outcomes available")>>)
        /\ (training_out[1].ty = "dict" /\ ~Falsy(training_in.objectives)) =>
               dict_get(training_out[1], "learningOutcomes") = training_in.objectives
        /\ Falsy(training_in.objectives) =>
               /\ training_out[1].ty =
                      training_to_eosc_json(unit_json, WithObjectives(training_in))[1].ty
               /\ training_out[1].ty # "dict" =>
                      training_out = training_to_eosc_json(unit_json, WithObjectives(training_in))

\* C17 happens: a training without objectives and one with an empty list
\* have been converted with the placeholder
C17_Witness ==
    /\ training_out # <<>>
    /\ training_out[1].ty = "dict"
    /\ training_in.objectives \in {None, List(<<>>)}
    /\ dict_get(training_out[1], "learningOutcomes") = no_learning_outcomes


\* the file of the current snapshot that a file of a store of this category
\* is named after, and that compare_training_material queued under it
QueuedFile(category, name) ==
    {t \in DOMAIN topics.dirs :
        /\ name \in DOMAIN topics.dirs[t]
        /\ Path(t, name) \in Range(training_jsons[category])}

\* C18: when a run has completed, every file in upload_failures/C and in
\* validated_eosc_jsons/C is named after a training of ./topics that this
\* run queued under C, and is the copy or the conversion of that training;
\* no file of an earlier run is left in the two stores.
C18_StoresOfThisRun ==
    pc = "done" =>
        \A category \in Categories :
            /\ \A name \in DOMAIN upload_failures[category] :
                   \E t \in QueuedFile(category, name) :
                       upload_failures[category][name] = topics.dirs[t][name]
            /\ \A name \in DOMAIN validated_eosc_jsons[category] :
                   \E t \in QueuedFile(category, name) :
                       validated_eosc_jsons[category][name] =
                           training_to_eosc_json(Path(t, name), topics.dirs[t][name])[1]

\* C18 happens: a second run has completed with a file in each store, after
\* a first run that left a failure
C18_Witness ==
    /\ pc = "done"
    /\ run = 2
    /\ \E category \in Categories : upload_failures[category] # EmptyDir
    /\ \E category \in Categories : validated_eosc_jsons[category] # EmptyDir
    /\ \E category \in Categories : old_upload_failures[category] # EmptyDir

====
